---- MODULE Spec2Model ----
(***************************************************************************)
(* The three SoapySDR scripts of the repository as one state machine:      *)
(*   sdr_live.py   live spectrum / waterfall loop                          *)
(*   sdr_log.py    CSV power logger, fixed and sweep modes                 *)
(*   sdr_test2.py  one-shot capture and FFT                                *)
(* Init picks the script and its command-line arguments; every action is   *)
(* one statement group of the script that was picked.                      *)
(*                                                                         *)
(* Abstractions.  A buffer cell is Fresh when the last read stored it and  *)
(* Stale otherwise; the device hands out block 1, 2, 3, ... and a dB value *)
(* computed from fresh samples is the number of the block, from stale ones *)
(* 0.  Frequencies are counted in half-hertz ticks, so that a fractional   *)
(* --freq and f_step / 2 are integers.  None is the empty sequence, a      *)
(* present value x is <<x>>.                                               *)
(***************************************************************************)
EXTENDS Integers, Sequences, FiniteSets, TLC

\* ---------------------------------------------------------------- bounds
MaxFft == 3         \* --fft of sdr_live.py ranges over 1..MaxFft
MaxReads == 203     \* blocks the device delivers to the live loop
MaxNsamps == 3      \* --nsamps of sdr_log.py ranges over 0..MaxNsamps
MaxExtra == 2       \* sdr_test2.py captures up to Chunk + MaxExtra samples
MaxSpan == 4        \* f_stop ranges over f_start - 2 .. f_start + MaxSpan
MaxStep == 3        \* f_step ranges over 1..MaxStep
MaxCycles == 3      \* logging cycles begun

\* ------------------------------------------------------ program constants
n_lines == 200      \* rows of the waterfall
Chunk == 4096       \* most samples one read of sdr_test2.py asks for

None == <<>>
Some(x) == <<x>>

Min(a, b) == IF a <= b THEN a ELSE b
Max(a, b) == IF a >= b THEN a ELSE b

\* ceil(a / b) for b > 0
CeilDiv(a, b) == -((-a) \div b)

VARIABLES
    script,         \* "live" | "log" | "test2"
    args,           \* the parsed command line
    pc,             \* the statement about to run
    exc,            \* the exception that left the loop, "none" while it runs
    tuned,          \* center frequency the device is set to (ticks)
    stream,         \* "none" | "active" | "inactive" | "closed"
    nreads,         \* blocks the device has delivered
    sr_ret,         \* sr.ret of the last readStream
    buf,            \* the receive buffer (sdr_live.py, sdr_log.py)
    nblock,         \* len(samples) of the block last reduced, -1 before any
    power,          \* live: the spectrum; log: None or <<mean power>>
    line,           \* y data of the spectrum line
    wf_data,        \* the waterfall rows
    wf_hist,        \* every row appended to the waterfall, in order (history)
    file0,          \* the output path as it was before the run (history)
    disk,           \* the CSV file on disk
    fbuf,           \* rows written to the file object and not yet on disk
    freqs,          \* the sweep sequence
    fi,             \* index into freqs of the current cycle
    f_hz,           \* frequency of the current cycle
    cycles,         \* logging cycles begun (history)
    trace,          \* steps of the current logging cycle, in order (history)
    csv_file,       \* the file object of sdr_log.py: "none" | "open" | "closed"
    cleanup,        \* calls made by the finally block of sdr_log.py (history)
    num_captured,   \* sdr_test2.py
    to_read         \* sdr_test2.py

vars == <<script, args, pc, exc, tuned, stream, nreads, sr_ret, buf, nblock,
          power, line, wf_data, wf_hist, file0, disk, fbuf, freqs, fi, f_hz, cycles,
          trace, csv_file, cleanup, num_captured, to_read>>

devVars == <<tuned, stream>>
liveVars == <<line, wf_data, wf_hist>>
logVars == <<file0, disk, fbuf, freqs, fi, f_hz, cycles, trace>>
t2Vars == <<num_captured, to_read>>
finVars == <<csv_file, cleanup>>

\* ------------------------------------------------------------ the device

\* What one readStream of n samples returns: a failure code, a timeout with
\* nothing read, or 1..n samples.  For a large n the partial counts are the
\* ones next to the ends.
ReadOutcomes(n) ==
    {-1, 0} \cup {r \in {1, 2, n - 1, n} : 1 <= r /\ r <= n}

Stale == "stale"
Fresh == "fresh"

\* The buffer after a read that stored ret samples at its start.
Stored(b, ret) == [i \in 1..Len(b) |-> IF i <= ret THEN Fresh ELSE Stale]

\* if sr.ret <= 0
ReadFailedNegativeOnly(ret) == ret < 0
ReadFailed(ret) == ret <= 0

\* b[:n]
Prefix(b, n) == SubSeq(b, 1, Min(n, Len(b)))

\* ------------------------------------------------------- the command line

NoArgs ==
    [fft |-> 0, waterfall |-> FALSE, mode |-> "none", freq |-> 0, f_start |-> 0,
     f_stop |-> 0, f_step |-> 1, nsamps |-> 0, append |-> FALSE]

LiveArgs ==
    {[NoArgs EXCEPT !.fft = n, !.waterfall = w] : n \in 1..MaxFft, w \in BOOLEAN}

FixedArgs ==
    {[NoArgs EXCEPT !.mode = "fixed", !.freq = f, !.nsamps = n, !.append = a] :
        f \in {1830, 1831}, n \in 0..MaxNsamps, a \in BOOLEAN}

SweepArgs ==
    {[NoArgs EXCEPT !.mode = "sweep", !.f_start = s, !.f_stop = s + d,
                    !.f_step = st, !.nsamps = n, !.append = a] :
        s \in {1800, 1801}, d \in (-2)..MaxSpan, st \in 1..MaxStep,
        n \in 0..MaxNsamps, a \in BOOLEAN}

Test2Args ==
    {[NoArgs EXCEPT !.nsamps = n] : n \in {0, 1, Chunk, Chunk + MaxExtra}}

\* A row of the CSV file.  kind "old" is a row the file held before the run.
HeaderRow ==
    [kind |-> "header", t |-> 0, freq_hz |-> 0, power_db |-> None,
     gps_lat |-> None, gps_lon |-> None, gps_alt |-> None]
OldRow == [HeaderRow EXCEPT !.kind = "old"]

\* The output path before the run: no file, an empty file, a file with rows.
Files ==
    {[exists |-> FALSE, rows |-> <<>>], [exists |-> TRUE, rows |-> <<>>],
     [exists |-> TRUE, rows |-> <<OldRow>>],
     [exists |-> TRUE, rows |-> <<OldRow, OldRow>>]}

Init ==
    /\ script \in {"live", "log", "test2"}
    /\ args \in CASE script = "live" -> LiveArgs
                  [] script = "log" -> FixedArgs \cup SweepArgs
                  [] OTHER -> Test2Args
    /\ pc = CASE script = "live" -> "live_read"
              [] script = "log" -> "setup_csv"
              [] OTHER -> "t2_while"
    /\ exc = "none"
    /\ tuned = IF script = "log" THEN 0 ELSE 200
    /\ stream = IF script = "log" THEN "none" ELSE "active"
    /\ nreads = 0
    /\ sr_ret = 0
    /\ buf = [i \in 1..(IF script = "live" THEN args.fft ELSE 0) |-> Stale]
    /\ nblock = -1
    /\ power = None
    /\ line = [i \in 1..args.fft |-> -100]
    /\ wf_data = IF script = "live" /\ args.waterfall
                 THEN [r \in 1..n_lines |-> [i \in 1..args.fft |-> -120]]
                 ELSE <<>>
    /\ wf_hist = <<>>
    /\ file0 \in IF script = "log" THEN Files ELSE {[exists |-> FALSE, rows |-> <<>>]}
    /\ disk = file0
    /\ fbuf = <<>>
    /\ freqs = <<>>
    /\ fi = 0
    /\ f_hz = 0
    /\ cycles = 0
    /\ trace = <<>>
    /\ csv_file = "none"
    /\ cleanup = <<>>
    /\ num_captured = 0
    /\ to_read = 0

\* ------------------------------------------------------------ sdr_live.py

\* np.hanning, np.fft.fft, fftshift, 20 log10: one dB value per sample of the
\* block; k is the number of the block the device delivered last.
Spectrum(samples, k) ==
    [i \in 1..Len(samples) |-> IF samples[i] = Fresh THEN k ELSE 0]

\* numpy's rule for  row[:] = value  with a 1-d value: the lengths agree, or
\* the value has one element and is repeated.
CanBroadcast(n, width) == n = width \/ n = 1
Broadcast(value, width) == [i \in 1..width |-> IF Len(value) = 1 THEN value[1] ELSE value[i]]

\* wf_data[:-1] = wf_data[1:]
ScrollDown(wf) == [r \in 1..Len(wf) |-> IF r > 1 THEN wf[r - 1] ELSE wf[r]]
ScrollUp(wf) == [r \in 1..Len(wf) |-> IF r < Len(wf) THEN wf[r + 1] ELSE wf[r]]

\* wf_data[-1] = row
SetLast(wf, row) == [wf EXCEPT ![Len(wf)] = row]

LiveLoopPcs == {"live_read", "live_fft", "live_wf", "live_draw"}

\* sr = sdr.readStream(stream, [buf], args.fft); if sr.ret <= 0: continue
LiveRead ==
    /\ script = "live" /\ pc = "live_read"
    /\ \E ret \in ReadOutcomes(args.fft) :
        /\ sr_ret' = ret
        /\ IF ReadFailed(ret)
           THEN UNCHANGED <<pc, buf, nreads>>
           ELSE /\ nreads < MaxReads
                /\ nreads' = nreads + 1
                /\ buf' = Stored(buf, ret)
                /\ pc' = "live_fft"
    /\ UNCHANGED <<finVars, script, args, exc, devVars, nblock, power, liveVars, logVars, t2Vars>>

\* samples = buf[:sr.ret]; window, FFT, dB; line.set_ydata(power)
LiveSpectrum ==
    /\ script = "live" /\ pc = "live_fft"
    /\ LET samples == Prefix(buf, sr_ret) IN
        /\ nblock' = Len(samples)
        /\ power' = Spectrum(samples, nreads)
        /\ line' = Spectrum(samples, nreads)
    /\ pc' = IF args.waterfall THEN "live_wf" ELSE "live_draw"
    /\ UNCHANGED <<finVars, script, args, exc, devVars, nreads, sr_ret, buf, wf_data, wf_hist,
                   logVars, t2Vars>>

\* wf_data[:-1] = wf_data[1:]; wf_data[-1] = power; wf_im.set_data(wf_data)
\* The row assignment raises ValueError when power cannot be broadcast to a row.
LiveWaterfall ==
    /\ script = "live" /\ pc = "live_wf"
    /\ IF CanBroadcast(Len(power), args.fft)
       THEN /\ wf_data' = SetLast(ScrollUp(wf_data), Broadcast(power, args.fft))
            /\ wf_hist' = Append(wf_hist, Broadcast(power, args.fft))
            /\ pc' = "live_draw"
            /\ UNCHANGED exc
       ELSE /\ wf_data' = ScrollUp(wf_data)
            /\ exc' = "ValueError"
            /\ pc' = "crashed"
            /\ UNCHANGED wf_hist
    /\ UNCHANGED <<finVars, script, args, devVars, nreads, sr_ret, buf, nblock, power, line,
                   logVars, t2Vars>>

\* fig.canvas.draw(); flush_events(); plt.pause(0.001)
\* Drawing the line raises ValueError when its y data cannot be broadcast
\* against the args.fft x values.
LiveDraw ==
    /\ script = "live" /\ pc = "live_draw"
    /\ IF CanBroadcast(Len(line), args.fft)
       THEN pc' = "live_read" /\ UNCHANGED exc
       ELSE pc' = "crashed" /\ exc' = "ValueError"
    /\ UNCHANGED <<finVars, script, args, devVars, nreads, sr_ret, buf, nblock, power, liveVars,
                   logVars, t2Vars>>

\* except KeyboardInterrupt: print("[!] Stopping...")
LiveInterrupt ==
    /\ script = "live" /\ pc \in LiveLoopPcs
    /\ exc' = "KeyboardInterrupt"
    /\ pc' = "live_cleanup"
    /\ UNCHANGED <<finVars, script, args, devVars, nreads, sr_ret, buf, nblock, power, liveVars,
                   logVars, t2Vars>>

\* sdr.deactivateStream(stream); sdr.closeStream(stream)
LiveCleanup ==
    /\ script = "live" /\ pc = "live_cleanup"
    /\ stream' = "closed"
    /\ pc' = "done"
    /\ UNCHANGED <<finVars, script, args, exc, tuned, nreads, sr_ret, buf, nblock, power,
                   liveVars, logVars, t2Vars>>

LiveNext ==
    \/ LiveRead
    \/ LiveSpectrum
    \/ LiveWaterfall
    \/ LiveDraw
    \/ LiveInterrupt
    \/ LiveCleanup

\* ------------------------------------------------------------- sdr_log.py

\* get_gps_fix(): the placeholder position
GetGpsFix == <<None, None, None>>

\* open(path, "w") truncates or creates; open(path, "a") keeps what is there.
OpenFile(file, append) ==
    IF append THEN [exists |-> TRUE, rows |-> file.rows]
    ELSE [exists |-> TRUE, rows |-> <<>>]

\* f.tell() right after the open: 0 for "w", the size of the file for "a".
Tell(file) == Len(file.rows)

\* if not append or f.tell() == 0
WritesHeaderUnlessAppend(append, tell) == ~append
WritesHeader(append, tell) == ~append \/ tell = 0

\* What a reader of the file sees once the file object is closed.
Content == disk.rows \o fbuf

\* np.arange(f_start, f_stop + f_step / 2, f_step): ceil((stop - start) / step)
\* values start + i * step, none when that count is not positive.
SweepFreqs(f_start, f_stop, f_step) ==
    LET n == CeilDiv(2 * (f_stop - f_start) + f_step, 2 * f_step)
    IN  [i \in 1..Max(n, 0) |-> f_start + (i - 1) * f_step]

\* int(f_hz) of a frequency in half-hertz ticks, in hertz
IntHz(f) == f \div 2

\* np.mean(np.abs(samples) ** 2), 10 log10; k is the number of the block the
\* device delivered last.
MeanPowerDb(samples, k) ==
    IF \A i \in 1..Len(samples) : samples[i] = Fresh THEN k ELSE 0

\* The attributes of the object csv.writer returns.
CsvWriterAttrs == {"writerow", "writerows", "dialect"}

LogLoopPcs == {"cycle", "tune", "read", "reduce", "emit", "flush"}

\* csv_file, writer = setup_csv(args.out, append=args.append)
SetupCsv ==
    /\ script = "log" /\ pc = "setup_csv"
    /\ LET f == OpenFile(disk, args.append) IN
        /\ disk' = f
        /\ fbuf' = IF WritesHeader(args.append, Tell(f)) THEN <<HeaderRow>> ELSE <<>>
    /\ csv_file' = "open"
    /\ pc' = "open_sdr"
    /\ UNCHANGED <<cleanup, script, args, exc, devVars, nreads, sr_ret, buf, nblock, power,
                   liveVars, file0, freqs, fi, f_hz, cycles, trace, t2Vars>>

\* sdr, stream, chan = open_sdr(args)
OpenSdr ==
    /\ script = "log" /\ pc = "open_sdr"
    /\ stream' = "active"
    /\ pc' = "run_mode"
    /\ UNCHANGED <<finVars, script, args, exc, tuned, nreads, sr_ret, buf, nblock, power,
                   liveVars, logVars, t2Vars>>

\* run_fixed_mode / run_sweep_mode up to the loop
RunMode ==
    /\ script = "log" /\ pc = "run_mode"
    /\ freqs' = IF args.mode = "sweep"
                THEN SweepFreqs(args.f_start, args.f_stop, args.f_step)
                ELSE <<>>
    /\ pc' = "cycle"
    /\ UNCHANGED <<finVars, script, args, exc, devVars, nreads, sr_ret, buf, nblock, power,
                   liveVars, file0, disk, fbuf, fi, f_hz, cycles, trace, t2Vars>>

\* while True: [for f_hz in freqs:] t = datetime.utcnow().isoformat()
\* An empty freqs leaves the while loop spinning.
LogBeginCycle ==
    /\ script = "log" /\ pc = "cycle"
    /\ cycles < MaxCycles
    /\ IF args.mode = "sweep" /\ freqs = <<>>
       THEN UNCHANGED <<pc, fi, f_hz, cycles, trace>>
       ELSE /\ fi' = IF args.mode = "sweep" THEN (fi % Len(freqs)) + 1 ELSE fi
            /\ f_hz' = IF args.mode = "sweep" THEN freqs[fi'] ELSE args.freq
            /\ cycles' = cycles + 1
            /\ trace' = <<>>
            /\ pc' = "tune"
    /\ UNCHANGED <<finVars, script, args, exc, devVars, nreads, sr_ret, buf, nblock, power,
                   liveVars, file0, disk, fbuf, freqs, t2Vars>>

\* measure_power: setFrequency, time.sleep(settle_time), buf = np.empty(nsamps)
LogTune ==
    /\ script = "log" /\ pc = "tune"
    /\ tuned' = f_hz
    /\ buf' = [i \in 1..args.nsamps |-> Stale]
    /\ trace' = trace \o <<"tune", "settle">>
    /\ pc' = "read"
    /\ UNCHANGED <<finVars, script, args, exc, stream, nreads, sr_ret, nblock, power,
                   liveVars, file0, disk, fbuf, freqs, fi, f_hz, cycles, t2Vars>>

\* measure_power: sr = readStream(...); if sr.ret <= 0: return None
LogRead ==
    /\ script = "log" /\ pc = "read"
    /\ \E ret \in ReadOutcomes(args.nsamps) :
        /\ sr_ret' = ret
        /\ IF ReadFailed(ret)
           THEN /\ power' = None
                /\ pc' = "emit"
                /\ UNCHANGED <<buf, nreads>>
           ELSE /\ buf' = Stored(buf, ret)
                /\ nreads' = nreads + 1
                /\ pc' = "reduce"
                /\ UNCHANGED power
    /\ trace' = Append(trace, "read")
    /\ UNCHANGED <<finVars, script, args, exc, devVars, nblock, liveVars, file0, disk, fbuf,
                   freqs, fi, f_hz, cycles, t2Vars>>

\* measure_power: samples = buf[:sr.ret]; mean power in dB
LogMeanPower ==
    /\ script = "log" /\ pc = "reduce"
    /\ LET samples == Prefix(buf, sr_ret) IN
        /\ nblock' = Len(samples)
        /\ power' = Some(MeanPowerDb(samples, nreads))
    /\ trace' = Append(trace, "reduce")
    /\ pc' = "emit"
    /\ UNCHANGED <<finVars, script, args, exc, devVars, nreads, sr_ret, buf, liveVars, file0,
                   disk, fbuf, freqs, fi, f_hz, cycles, t2Vars>>

\* get_gps_fix(); print; writer.writerow([t, int(f_hz), power_db, gps...])
LogWriteRow ==
    /\ script = "log" /\ pc = "emit"
    /\ fbuf' = Append(fbuf, [kind |-> "record", t |-> cycles, freq_hz |-> IntHz(f_hz),
                             power_db |-> power, gps_lat |-> GetGpsFix[1],
                             gps_lon |-> GetGpsFix[2], gps_alt |-> GetGpsFix[3]])
    /\ trace' = Append(trace, "write")
    /\ pc' = "flush"
    /\ UNCHANGED <<finVars, script, args, exc, devVars, nreads, sr_ret, buf, nblock, power,
                   liveVars, file0, disk, freqs, fi, f_hz, cycles, t2Vars>>

\* writer.flush() [; time.sleep(args.interval)]
\* The attribute lookup raises AttributeError: the writer has no flush.
LogFlush ==
    /\ script = "log" /\ pc = "flush"
    /\ IF "flush" \in CsvWriterAttrs
       THEN /\ disk' = [disk EXCEPT !.rows = disk.rows \o fbuf]
            /\ fbuf' = <<>>
            /\ trace' = Append(trace, "flush")
            /\ pc' = "cycle"
            /\ UNCHANGED exc
       ELSE /\ exc' = "AttributeError"
            /\ pc' = "finally"
            /\ UNCHANGED <<disk, fbuf, trace>>
    /\ UNCHANGED <<finVars, script, args, devVars, nreads, sr_ret, buf, nblock, power,
                   liveVars, file0, freqs, fi, f_hz, cycles, t2Vars>>

\* except KeyboardInterrupt: print("[MODE] ... stopped by user.")
LogInterrupt ==
    /\ script = "log" /\ pc \in LogLoopPcs
    /\ exc' = "KeyboardInterrupt"
    /\ pc' = "finally"
    /\ UNCHANGED <<finVars, script, args, devVars, nreads, sr_ret, buf, nblock, power,
                   liveVars, logVars, t2Vars>>

\* The statement that runs after a call of close_sdr has returned (ok) or has
\* raised an Exception (~ok), which  except Exception: pass  swallows.
AfterCallUnguarded(ok, next) == IF ok THEN next ELSE "crashed"
AfterCall(ok, next) == next

\* finally: close_sdr: try: sdr.deactivateStream(stream) except Exception: pass
LogDeactivate ==
    /\ script = "log" /\ pc = "finally"
    /\ \E ok \in BOOLEAN :
        /\ stream' = IF ok THEN "inactive" ELSE stream
        /\ cleanup' = Append(cleanup, [call |-> "deactivateStream", ok |-> ok])
        /\ pc' = AfterCall(ok, "close_stream")
    /\ UNCHANGED <<csv_file, script, args, exc, tuned, nreads, sr_ret, buf, nblock,
                   power, liveVars, logVars, t2Vars>>

\* finally: close_sdr: try: sdr.closeStream(stream) except Exception: pass
LogCloseStream ==
    /\ script = "log" /\ pc = "close_stream"
    /\ \E ok \in BOOLEAN :
        /\ stream' = IF ok THEN "closed" ELSE stream
        /\ cleanup' = Append(cleanup, [call |-> "closeStream", ok |-> ok])
        /\ pc' = AfterCall(ok, "csv_close")
    /\ UNCHANGED <<csv_file, script, args, exc, tuned, nreads, sr_ret, buf, nblock,
                   power, liveVars, logVars, t2Vars>>

\* finally: close_sdr(sdr, stream)
LogCloseSdr ==
    \/ LogDeactivate
    \/ LogCloseStream

\* finally: csv_file.close(), which writes out what the file object buffered;
\* an exception other than KeyboardInterrupt then leaves main.
LogCsvClose ==
    /\ script = "log" /\ pc = "csv_close"
    /\ disk' = [disk EXCEPT !.rows = disk.rows \o fbuf]
    /\ fbuf' = <<>>
    /\ csv_file' = "closed"
    /\ cleanup' = Append(cleanup, [call |-> "csv_file.close", ok |-> TRUE])
    /\ pc' = IF exc \in {"none", "KeyboardInterrupt"} THEN "done" ELSE "crashed"
    /\ UNCHANGED <<script, args, exc, devVars, nreads, sr_ret, buf, nblock, power,
                   liveVars, file0, freqs, fi, f_hz, cycles, trace, t2Vars>>

LogNext ==
    \/ SetupCsv
    \/ OpenSdr
    \/ RunMode
    \/ LogBeginCycle
    \/ LogTune
    \/ LogRead
    \/ LogMeanPower
    \/ LogWriteRow
    \/ LogFlush
    \/ LogInterrupt
    \/ LogCloseSdr
    \/ LogCsvClose

\* ----------------------------------------------------------- sdr_test2.py

\* to_read = min(4096, args.nsamps - num_captured)
ToReadWholeChunk(nsamps, captured) == Chunk
ToRead(nsamps, captured) == Min(Chunk, nsamps - captured)

\* while num_captured < args.nsamps: to_read = ...
T2While ==
    /\ script = "test2" /\ pc = "t2_while"
    /\ IF num_captured < args.nsamps
       THEN to_read' = ToRead(args.nsamps, num_captured) /\ pc' = "t2_read"
       ELSE pc' = "t2_deactivate" /\ UNCHANGED to_read
    /\ UNCHANGED <<finVars, script, args, exc, devVars, nreads, sr_ret, buf, nblock, power,
                   liveVars, logVars, num_captured>>

\* sr = readStream(stream, [buff[num_captured:num_captured+to_read]], to_read)
\* if sr.ret > 0: num_captured += sr.ret  else: break
T2Read ==
    /\ script = "test2" /\ pc = "t2_read"
    /\ \E ret \in ReadOutcomes(to_read) :
        /\ sr_ret' = ret
        /\ IF ret > 0
           THEN /\ num_captured' = num_captured + ret
                /\ pc' = "t2_while"
           ELSE /\ pc' = "t2_deactivate"
                /\ UNCHANGED num_captured
    /\ UNCHANGED <<finVars, script, args, exc, devVars, nreads, buf, nblock, power, liveVars,
                   logVars, to_read>>

\* sdr.deactivateStream(stream)
T2Deactivate ==
    /\ script = "test2" /\ pc = "t2_deactivate"
    /\ stream' = "inactive"
    /\ pc' = "t2_close"
    /\ UNCHANGED <<finVars, script, args, exc, tuned, nreads, sr_ret, buf, nblock, power,
                   liveVars, logVars, t2Vars>>

\* sdr.closeStream(stream); if num_captured == 0: print("ERROR ..."); return
T2Close ==
    /\ script = "test2" /\ pc = "t2_close"
    /\ stream' = "closed"
    /\ pc' = IF num_captured = 0 THEN "done" ELSE "t2_fft"
    /\ UNCHANGED <<finVars, script, args, exc, tuned, nreads, sr_ret, buf, nblock, power,
                   liveVars, logVars, t2Vars>>

\* samples = buff[:num_captured]; window, FFT, dB; plot
T2Spectrum ==
    /\ script = "test2" /\ pc = "t2_fft"
    /\ nblock' = num_captured
    /\ pc' = "done"
    /\ UNCHANGED <<finVars, script, args, exc, devVars, nreads, sr_ret, buf, power, liveVars,
                   logVars, t2Vars>>

T2Next ==
    \/ T2While
    \/ T2Read
    \/ T2Deactivate
    \/ T2Close
    \/ T2Spectrum

Next == LiveNext \/ LogNext \/ T2Next

Spec == Init /\ [][Next]_vars

\* sdr_test2.py alone; the interpreter runs on while a statement is left.
T2Init == Init /\ script = "test2"
T2FairSpec == T2Init /\ [][T2Next]_vars /\ WF_vars(T2Next)

\* sdr_log.py alone; once main is in its finally block the interpreter runs
\* it on.  The cancellation signal is the user's to send or not.
LogInit == Init /\ script = "log"
LogFairSpec == LogInit /\ [][LogNext]_vars /\ WF_vars(LogCloseSdr \/ LogCsvClose)

\* ================================================================ claims

\* The acquisition loop has been left (live loop, run_fixed_mode, run_sweep_mode).
LoopLeft ==
    \/ script = "live" /\ pc \notin LiveLoopPcs
    \/ script = "log" /\ pc \in {"finally", "close_stream", "csv_close", "done", "crashed"}

\* The length the cycle asks the device for.
BlockLength == IF script = "live" THEN args.fft ELSE args.nsamps

Records(rows) == {i \in 1..Len(rows) : rows[i].kind = "record"}

\* C1: in the live loop and in both logging loops, the loop is left only by
\* the cancellation signal: whatever the reads return and whatever the sinks
\* are handed, a loop that has been left was left by KeyboardInterrupt.
C1_OnlyCancellationEndsLoop ==
    LoopLeft => exc = "KeyboardInterrupt"

\* C2: in the logging modes a cycle whose read returned a non-positive count
\* writes exactly one record, with the cycle's frequency and no power value,
\* and the loop is not halted by it: it goes on to the next cycle.
C2_ReadFailureIsLoggedAndLoopGoesOn ==
    (script = "log" /\ cycles >= 1 /\ sr_ret <= 0
        /\ pc \in {"flush", "cycle", "finally", "close_stream", "csv_close", "done",
                  "crashed"}
        /\ "write" \in {trace[i] : i \in 1..Len(trace)})
    => /\ LET mine == {i \in Records(Content) : Content[i].t = cycles}
          IN  /\ Cardinality(mine) = 1
              /\ \A i \in mine : /\ Content[i].power_db = None
                                 /\ Content[i].freq_hz = IntHz(f_hz)
       /\ LoopLeft => exc = "KeyboardInterrupt"

\* C3: a cycle hands the reduction a block of exactly the requested length
\* or nothing: a block shorter than the requested length is never reduced,
\* neither to a spectrum nor to a mean power.
C3_OnlyFullBlocksAreReduced ==
    nblock = -1 \/ nblock = BlockLength

\* C4: the waterfall of sdr_live.py is a FIFO of n_lines rows: while the loop
\* runs or after it is cancelled, the buffer has n_lines rows and, m rows
\* having been appended, its last min(m, n_lines) rows are the
\* min(m, n_lines) rows appended last, in the order they were appended.
C4_WaterfallIsFifo ==
    (script = "live" /\ args.waterfall /\ exc # "ValueError")
    => /\ Len(wf_data) = n_lines
       /\ LET m == Len(wf_hist)
              c == Min(m, n_lines)
          IN  \A j \in 1..c : wf_data[n_lines - c + j] = wf_hist[m - c + j]

\* n_lines + 1 rows have been appended, the first of them is gone and the
\* second is the oldest row of the buffer.
C4_Witness ==
    /\ script = "live" /\ args.waterfall /\ args.fft > 1
    /\ Len(wf_hist) = n_lines + 1
    /\ wf_data[1] = wf_hist[2]
    /\ wf_data[1] # wf_hist[1]
    /\ wf_data[n_lines] = wf_hist[n_lines + 1]

\* C5: sweep mode visits f_start, f_start + f_step, ... strictly ascending,
\* every such value up to and including f_stop and none above it, one
\* measurement per frequency in that order, starting over at f_start after
\* the last one.
C5_SweepSequence ==
    (script = "log" /\ args.mode = "sweep" /\ args.f_start <= args.f_stop
        /\ pc \notin {"setup_csv", "open_sdr", "run_mode"})
    => /\ \A i \in 1..Len(freqs) :
            /\ freqs[i] = args.f_start + (i - 1) * args.f_step
            /\ freqs[i] <= args.f_stop
       /\ \A k \in 0..(MaxSpan + 2) :
            args.f_start + k * args.f_step <= args.f_stop => k + 1 <= Len(freqs)
       /\ pc \in {"tune", "read", "reduce", "emit", "flush"}
            => f_hz = freqs[((cycles - 1) % Len(freqs)) + 1]
       /\ LoopLeft => exc = "KeyboardInterrupt"

\* C6: in the logging loops every record is flushed right after it is
\* written: the flush of a cycle's row succeeds, and at the start of a cycle
\* and up to its write no record is left unflushed.
C6_EveryRecordIsFlushed ==
    script = "log"
    => /\ exc # "AttributeError"
       /\ pc \in {"cycle", "tune", "read", "reduce", "emit"}
            => \A i \in 1..Len(fbuf) : fbuf[i].kind # "record"

\* C7: setup_csv writes the header exactly once, as the first row, when the
\* file is opened for overwrite or is opened for append and is empty or new;
\* appending to a file that has rows, it writes no header and the rows the
\* file had stay in place ahead of the new records.
C7_HeaderOnceUnlessAppendingToRows ==
    (script = "log" /\ pc # "setup_csv")
    => LET headers == {i \in 1..Len(Content) : Content[i].kind = "header"}
       IN  IF ~args.append \/ file0.rows = <<>>
           THEN /\ headers = {1}
                /\ \A i \in 1..Len(Content) : Content[i].kind # "old"
           ELSE /\ headers = {}
                /\ Len(Content) >= Len(file0.rows)
                /\ SubSeq(Content, 1, Len(file0.rows)) = file0.rows

\* A record has been appended to a file that had rows, after them and with
\* no header in between; the file is closed.
C7_Witness ==
    /\ script = "log" /\ args.append /\ Len(file0.rows) = 2
    /\ pc \in {"done", "crashed"}
    /\ Len(disk.rows) = 3
    /\ disk.rows[3].kind = "record"

\* The cycle has just dealt with a block of no samples: a read of the live
\* loop or of measure_power returned no sample, or the capture of
\* sdr_test2.py ended with nothing captured.
ZeroLengthHandled ==
    \/ script = "live" /\ pc = "live_read" /\ nreads > 0 /\ sr_ret <= 0
    \/ script = "log" /\ pc = "emit" /\ sr_ret <= 0
    \/ script = "test2" /\ pc = "done" /\ num_captured = 0

\* C8 as claimed: a block of no samples is rejected with an InvalidInput
\* error, not with the ReadFailure value and not by a silent return.
C8_ZeroLengthIsInvalidInput ==
    ZeroLengthHandled => exc = "InvalidInput"

\* C8 as the code has it: a block of no samples is never reduced, neither to
\* a spectrum nor to a mean power, and no error is raised for it: the live
\* loop goes back to its read, measure_power returns None, and sdr_test2.py
\* returns without a spectrum.
C8_ZeroLengthIsNeverReduced ==
    /\ nblock # 0
    /\ ZeroLengthHandled => exc = "none"
    /\ (script = "log" /\ pc = "emit" /\ sr_ret <= 0) => power = None
    /\ (script = "log" /\ pc = "reduce") => sr_ret >= 1
    /\ (script = "live" /\ pc = "live_fft") => sr_ret >= 1
    /\ (script = "test2" /\ pc = "t2_fft") => num_captured >= 1
    /\ (script = "test2" /\ pc = "done" /\ num_captured = 0) => nblock = -1

\* measure_power has returned None for a read that timed out with no sample,
\* on a request for samples, and the record carries no power.
C8_Witness ==
    /\ script = "log" /\ pc = "flush" /\ args.nsamps > 0
    /\ sr_ret = 0
    /\ nblock = -1
    /\ fbuf[Len(fbuf)].kind = "record" /\ fbuf[Len(fbuf)].power_db = None

\* C9: in the logging modes a cycle runs tune, settle, read, reduce (when the
\* read gave samples), emit in that order and to its end before the next
\* begins, and appends one record: with the frequency the device was tuned
\* to in that cycle and no position, so that the records written are as many
\* as the cycles completed.
C9_OneRecordPerCompletedCycle ==
    (script = "log" /\ cycles >= 1)
    => /\ \E n \in 0..6 :
            trace = SubSeq(IF sr_ret <= 0 /\ Len(trace) > 2
                           THEN <<"tune", "settle", "read", "write", "flush">>
                           ELSE <<"tune", "settle", "read", "reduce", "write", "flush">>,
                           1, n)
       /\ \A i \in Records(Content) :
            /\ Content[i].gps_lat = None /\ Content[i].gps_lon = None
            /\ Content[i].gps_alt = None
            /\ Content[i].t = cycles => Content[i].freq_hz = IntHz(tuned)
       /\ Cardinality(Records(Content)) \in {cycles - 1, cycles}
       /\ pc = "cycle" => Cardinality(Records(Content)) = cycles
       /\ LoopLeft => exc = "KeyboardInterrupt"

\* C10: the capture loop of sdr_test2.py keeps 0 <= num_captured <= nsamps,
\* asks each read for min(4096, nsamps - num_captured) samples, which is at
\* least one and no more than the buffer has room for, and ends: each read
\* either adds at least one sample or leaves the loop, and after the loop
\* the stream is deactivated and then closed, whatever was captured.
C10_CaptureLoopIsBoundedAndEnds ==
    /\ [](0 <= num_captured /\ num_captured <= args.nsamps)
    /\ [](pc = "t2_read"
            => /\ to_read = Min(Chunk, args.nsamps - num_captured)
               /\ 1 <= to_read /\ num_captured + to_read <= args.nsamps)
    /\ [][pc = "t2_read"
            => \/ num_captured' >= num_captured + 1 /\ pc' = "t2_while"
               \/ num_captured' = num_captured /\ sr_ret' <= 0
                    /\ pc' = "t2_deactivate"]_vars
    /\ [](pc = "t2_close" => stream = "inactive")
    /\ [](pc \in {"t2_fft", "done"} => stream = "closed")
    /\ <>(pc = "done" /\ stream = "closed")

\* A capture of more than one chunk has ended with the buffer full, its last
\* read a short one, and the stream closed.
C10_Witness ==
    /\ script = "test2" /\ pc = "done" /\ stream = "closed"
    /\ args.nsamps > Chunk
    /\ num_captured = args.nsamps
    /\ sr_ret < Chunk

\* The calls of the finally block of main, in the order the code makes them.
CleanupCalls == <<"deactivateStream", "closeStream", "csv_file.close">>

\* main of sdr_log.py is in or past its finally block.
InCleanup == script = "log" /\ pc \in {"finally", "close_stream", "csv_close", "done", "crashed"}

\* C11: in sdr_log.py every way out of the mode loop, the cancellation or an
\* exception, runs the cleanup once: deactivateStream, then closeStream, then
\* the close of the CSV file, each once and in that order, whether or not
\* deactivateStream or closeStream failed; and from the cleanup on there is
\* no read and no record written.
C11_CleanupRunsOnceInOrder ==
    /\ [](\E n \in 0..3 :
            /\ Len(cleanup) = n
            /\ \A i \in 1..n : cleanup[i].call = CleanupCalls[i])
    /\ [](cleanup # <<>> => InCleanup)
    /\ [](pc \in {"done", "crashed"} => /\ Len(cleanup) = 3
                                        /\ csv_file = "closed"
                                        /\ fbuf = <<>>)
    /\ [](csv_file = "closed" <=> pc \in {"done", "crashed"})
    /\ [](stream = "closed" => Len(cleanup) >= 2 /\ cleanup[2].ok)
    /\ [][InCleanup => /\ InCleanup'
                       /\ nreads' = nreads /\ sr_ret' = sr_ret /\ buf' = buf
                       /\ Content' = Content]_vars
    /\ (InCleanup ~> (pc \in {"done", "crashed"} /\ csv_file = "closed"))

\* The flush of the first record raised, deactivateStream and closeStream
\* both failed, and the CSV file is closed with the record in it.
C11_Witness ==
    /\ script = "log" /\ pc = "crashed" /\ exc = "AttributeError"
    /\ Len(cleanup) = 3
    /\ ~cleanup[1].ok /\ ~cleanup[2].ok
    /\ stream = "active"
    /\ csv_file = "closed"
    /\ Records(disk.rows) # {}

====
